---- MODULE Spec2Model ----
(***************************************************************************)
(* Hex-frame texture tools of Theron (squash_hex_frame.py,                 *)
(* squash_hex_frame_v2.py, smart_hex_crop.py, thin_frame.py,               *)
(* normalize_textures.py): the per-file transforms and the batch loops     *)
(* that drive them.                                                        *)
(*                                                                         *)
(* Arithmetic.  The scripts compute in float64.  The model computes the    *)
(* same expressions exactly, in fixed point: every distance is an integer  *)
(* number of 1/Unit pixels, with Unit chosen so that each division the     *)
(* code performs on a distance (percentile interpolation by hundredths     *)
(* and half hundredths, halving and quartering, scaling by a factor in     *)
(* tenths) is exact.  sqrt(3) is the rational Sqrt3Num/Sqrt3Den.           *)
(***************************************************************************)
EXTENDS Integers, Sequences, FiniteSets, TLC

VARIABLES script, files, idx, pc, attempted, log, call, probe, disk

vars == <<script, files, idx, pc, attempted, log, call, probe, disk>>

(***************************************************************************)
(* Fixed-point scale                                                       *)
(***************************************************************************)
Sqrt3Num == 26
Sqrt3Den == 15
PctDen == 200
FDen == 10
DistDen == 4 * Sqrt3Den
Unit == DistDen * PctDen * 4 * FDen

Abs(n) == IF n < 0 THEN -n ELSE n
Min(a, b) == IF a <= b THEN a ELSE b
Max(a, b) == IF a >= b THEN a ELSE b
Clip(v, lo, hi) == IF v < lo THEN lo ELSE IF v > hi THEN hi ELSE v

\* floor(a * b / c) for 0 <= a, 0 <= b, 0 < c, without forming a * b
RECURSIVE MulDivMod(_, _, _)
MulDivMod(a, b, c) ==
    IF b = 0 THEN [q |-> 0, r |-> 0]
    ELSE LET half == MulDivMod(a, b \div 2, c)
             rest == 2 * half.r + (IF b % 2 = 1 THEN a ELSE 0)
         IN  [q |-> 2 * half.q + rest \div c, r |-> rest % c]

MulDiv(a, b, c) == MulDivMod(a, b, c).q

(***************************************************************************)
(* Images: np.array(img) of an RGBA image, shape (height, width, 4).       *)
(* A pixel is [rgb, a]; rgb stands for the three colour channels.          *)
(***************************************************************************)
MaxPixels == 6
BatchMaxPixels == 1

TransparentPx == [rgb |-> 0, a |-> 0]
PixelVals == {TransparentPx, [rgb |-> 120, a |-> 15], [rgb |-> 250, a |-> 255]}

Coords(w, h) == (0 .. h - 1) \X (0 .. w - 1)

Shapes(n) == {s \in (1 .. n) \X (1 .. n) : s[1] * s[2] <= n}

Images(n) ==
    UNION {{[w |-> s[1], h |-> s[2], px |-> f] : f \in [Coords(s[1], s[2]) -> PixelVals]}
           : s \in Shapes(n)}

NoImage == [w |-> 0, h |-> 0, px |-> <<>>]

(***************************************************************************)
(* Distance fields                                                         *)
(***************************************************************************)
\* (variant of HexDist: the coordinates taken with their sign)
HexDist_Signed(x2, y2) ==
    Max((Sqrt3Num * x2 + Sqrt3Den * y2) * (Unit \div DistDen), y2 * (Unit \div 2))

\* squash_hex_frame.py / smart_hex_crop.py:
\*   d = max(|x| * (sqrt3/2) + |y| * 0.5, |y|),  x = col - width/2, y = row - height/2
\* (x2, y2) = (2x, 2y) are the doubled centred coordinates
HexDist(x2, y2) ==
    Max((Sqrt3Num * Abs(x2) + Sqrt3Den * Abs(y2)) * (Unit \div DistDen),
        Abs(y2) * (Unit \div 2))

create_hex_distance_field(width, height) ==
    [p \in Coords(width, height) |-> HexDist(2 * p[2] - width, 2 * p[1] - height)]

\* squash_hex_frame_v2.py:
\*   d = max(|y| * (sqrt3/2) + |x| * 0.5, |x|)
HexDistPointy(x2, y2) ==
    Max((Sqrt3Num * Abs(y2) + Sqrt3Den * Abs(x2)) * (Unit \div DistDen),
        Abs(x2) * (Unit \div 2))

create_hex_distance_field_pointy(width, height) ==
    [p \in Coords(width, height) |-> HexDistPointy(2 * p[2] - width, 2 * p[1] - height)]

(***************************************************************************)
(* np.percentile(values, q), linear interpolation between order statistics *)
(* q is given in half hundredths of a percent point: qh = q * PctDen / 100 *)
(***************************************************************************)
\* k-th smallest (k = 0 .. n-1) of the values d[p], p \in P
KthSmallest(P, d, k) ==
    CHOOSE v \in {d[p] : p \in P} :
        /\ Cardinality({p \in P : d[p] < v}) <= k
        /\ k < Cardinality({p \in P : d[p] <= v})

Percentile(P, d, qh) ==
    LET n == Cardinality(P)
        pos == qh * (n - 1)
        i == pos \div PctDen
        g == pos % PctDen
        lo == KthSmallest(P, d, i)
        hi == KthSmallest(P, d, Min(i + 1, n - 1))
    IN  lo + ((hi - lo) * g) \div PctDen

(***************************************************************************)
(* Ring bounds and the symmetric target policy                             *)
(* (squash_hex_frame.py 31-50, squash_hex_frame_v2.py 33-54)               *)
(***************************************************************************)
AlphaThreshold == 20
EpsilonDen == 1000

Squash == "squash_hex_frame"
SquashV2 == "squash_hex_frame_v2"
SmartCrop == "smart_hex_crop"
ThinFrame == "thin_frame"
Normalize == "normalize_textures"

\* (variant of OccupiedMask: any non-zero alpha counts as occupied)
OccupiedMask_AnyAlpha(img) == {p \in Coords(img.w, img.h) : img.px[p].a > 0}

\* mask = alpha > 20
OccupiedMask(img) == {p \in Coords(img.w, img.h) : img.px[p].a > AlphaThreshold}

\* the percentiles each script takes, as qh = q * PctDen / 100
PLow(variant) == IF variant = Squash THEN 2 ELSE IF variant = SquashV2 THEN 1 ELSE 4
PHigh(variant) == IF variant = Squash THEN 198 ELSE IF variant = SquashV2 THEN 199 ELSE 196

DistField(variant, width, height) ==
    IF variant = SquashV2 THEN create_hex_distance_field_pointy(width, height)
    ELSE create_hex_distance_field(width, height)

\* src_inner, src_outer = np.percentile(masked_dist, low), np.percentile(masked_dist, high)
SourceBounds(variant, img) ==
    LET d == DistField(variant, img.w, img.h)
        mask == OccupiedMask(img)
    IN  [inner |-> Percentile(mask, d, PLow(variant)),
         outer |-> Percentile(mask, d, PHigh(variant))]

\* (variant of SymmetricTarget: the shrink split 3:1 between inner and outer edge)
SymmetricTarget_InnerBiased(src_inner, src_outer, fn) ==
    LET src_thickness == src_outer - src_inner
        tgt_thickness == (src_thickness * fn) \div FDen
        shrink == (src_thickness - tgt_thickness) \div 2
    IN  [src_inner |-> src_inner, src_outer |-> src_outer,
         src_thickness |-> src_thickness, src_center |-> (src_inner + src_outer) \div 2,
         tgt_thickness |-> tgt_thickness,
         tgt_inner |-> src_inner + (3 * shrink) \div 2,
         tgt_outer |-> src_outer - shrink \div 2]

\* src_thickness, src_center, tgt_thickness, tgt_inner, tgt_outer
\* (compression_factor = fn / FDen)
SymmetricTarget(src_inner, src_outer, fn) ==
    LET src_thickness == src_outer - src_inner
        src_center == (src_inner + src_outer) \div 2
        tgt_thickness == (src_thickness * fn) \div FDen
    IN  [src_inner |-> src_inner, src_outer |-> src_outer,
         src_thickness |-> src_thickness, src_center |-> src_center,
         tgt_thickness |-> tgt_thickness,
         tgt_inner |-> src_center - tgt_thickness \div 2,
         tgt_outer |-> src_center + tgt_thickness \div 2]

NoGeom == [src_inner |-> -1, src_outer |-> -1, src_thickness |-> -1, src_center |-> -1,
           tgt_thickness |-> -1, tgt_inner |-> -1, tgt_outer |-> -1]

(***************************************************************************)
(* Inverse radial warp of one destination pixel at distance dval           *)
(***************************************************************************)
\* anti-aliasing margin of target_mask: 1 px (squash_hex_frame), 2 px (v2)
Margin(variant) == IF variant = Squash THEN Unit ELSE 2 * Unit

\* (variant of InTargetMask: every pixel is remapped)
InTargetMask_Everywhere(variant, g, dval) == TRUE

\* target_mask = (d >= tgt_inner - margin) & (d <= tgt_outer + margin)
InTargetMask(variant, g, dval) ==
    /\ dval >= g.tgt_inner - Margin(variant)
    /\ dval <= g.tgt_outer + Margin(variant)

\* valid_d[valid_d == 0] = 0.001
ValidD(dval) == IF dval = 0 THEN Unit \div EpsilonDen ELSE dval

\* (variant of WarpPixel: t taken across the source thickness)
WarpPixel_SourceNormalised(variant, g, fn, dval) ==
    LET valid_d == ValidD(dval)
        raw == valid_d - g.tgt_inner
        t_num == IF variant = SquashV2 THEN Clip(raw, 0, g.tgt_thickness) ELSE raw
    IN  [nan |-> g.tgt_thickness = 0, t_num |-> t_num, t_den |-> g.src_thickness,
         d_src_num |-> (g.src_inner + t_num) * fn, d_src_den |-> fn, valid_d |-> valid_d]

\* (variant of WarpPixel: the ring read from the outer edge inwards)
WarpPixel_Flipped(variant, g, fn, dval) ==
    LET valid_d == ValidD(dval)
        raw == valid_d - g.tgt_inner
        t_num == IF variant = SquashV2 THEN Clip(raw, 0, g.tgt_thickness) ELSE raw
    IN  [nan |-> g.tgt_thickness = 0, t_num |-> t_num, t_den |-> g.tgt_thickness,
         d_src_num |-> g.src_outer * fn - t_num * FDen, d_src_den |-> fn,
         valid_d |-> valid_d]

\* t = (valid_d - tgt_inner) / tgt_thickness, as the fraction t_num / t_den;
\* squash_hex_frame_v2 clips t to [0, 1], squash_hex_frame does not.
\* d_src = src_inner + t * src_thickness.  For tgt_thickness # 0,
\* src_thickness / tgt_thickness = FDen / fn, so d_src = d_src_num / fn with
\* d_src_num = src_inner * fn + t_num * FDen.  scale = d_src / valid_d.
\* For tgt_thickness = 0 the division yields inf or nan: in squash_hex_frame
\* d_src = src_inner + t * 0 is nan; in v2 the clip turns +-inf into 0 or 1
\* (d_src = src_inner) and leaves nan (valid_d = tgt_inner).
WarpPixel(variant, g, fn, dval) ==
    LET valid_d == ValidD(dval)
        raw == valid_d - g.tgt_inner
        t_num == IF variant = SquashV2 THEN Clip(raw, 0, g.tgt_thickness) ELSE raw
    IN  IF g.tgt_thickness = 0
        THEN [nan |-> (variant = Squash) \/ raw = 0,
              t_num |-> IF raw > 0 THEN 1 ELSE 0, t_den |-> 0,
              d_src_num |-> g.src_inner * fn, d_src_den |-> fn, valid_d |-> valid_d]
        ELSE [nan |-> FALSE, t_num |-> t_num, t_den |-> g.tgt_thickness,
              d_src_num |-> g.src_inner * fn + t_num * FDen, d_src_den |-> fn,
              valid_d |-> valid_d]

\* map_y = y_indices, map_x = x_indices: scale 1
IdentityMap == [nan |-> FALSE, t_num |-> 0, t_den |-> 1,
                d_src_num |-> 1, d_src_den |-> 1, valid_d |-> 1]

\* the map entry of a destination pixel: remapped inside target_mask only
CoordinateMap(variant, g, fn, dval) ==
    IF InTargetMask(variant, g, dval) THEN WarpPixel(variant, g, fn, dval) ELSE IdentityMap

\* the pixel is read from its own coordinate: (pixel - center) * scale = pixel - center
ScaleIsOne(m) == ~m.nan /\ m.d_src_num = m.d_src_den * m.valid_d

(***************************************************************************)
(* Edge mask: clip((d - inner)/s, 0, 1) * clip((outer - d)/s, 0, 1)        *)
(***************************************************************************)
\* edge_softness = 1.5
EdgeSoftness == (3 * Unit) \div 2

\* (variant of EdgeMask: the two ramps are not clipped)
EdgeMask_Unclipped(inner, outer, s, dval) ==
    [low |-> dval - inner, high |-> outer - dval, s |-> s]

\* the two factors of mask(d), each as a multiple of 1/s:
\* clip((d - inner)/s, 0, 1) = low / s, clip((outer - d)/s, 0, 1) = high / s
EdgeMask(inner, outer, s, dval) ==
    [low |-> Clip(dval - inner, 0, s), high |-> Clip(outer - dval, 0, s), s |-> s]

NoMask == [low |-> 0, high |-> 0, s |-> EdgeSoftness]

\* (variant of MaskedAlpha: the geometric mask is not applied)
MaskedAlpha_Unmasked(a, inner, outer, s, dval) == a

\* (variant of MaskedAlpha: the hard-geometric policy, alpha = floor(255 * mask(d)))
MaskedAlpha_Hard(a, inner, outer, s, dval) ==
    MulDiv(255 * Clip(dval - inner, 0, s), Clip(outer - dval, 0, s), s) \div s

\* floor(a * mask(d)) for an 8-bit value a
MaskedAlpha(a, inner, outer, s, dval) ==
    LET m == EdgeMask(inner, outer, s, dval)
    IN  MulDiv(a * m.low, m.high, s) \div s

MaskIsZero(inner, outer, s, dval) == dval <= inner \/ dval >= outer
MaskIsOne(inner, outer, s, dval) == dval - inner >= s /\ outer - dval >= s

(***************************************************************************)
(* Resampling: ndimage.map_coordinates(channel, [map_y, map_x], order=3,   *)
(* mode='constant', cval=0).  A cubic spline interpolates: at a coordinate *)
(* that is a grid point it returns the stored value; outside the grid it   *)
(* returns cval; anywhere else (and at a nan coordinate) the value depends *)
(* on the whole neighbourhood and is left open: every channel gets k.      *)
(***************************************************************************)
SampleVals == {0, 200}

OpenPx(k) == [rgb |-> k, a |-> k]

\* the value read for a destination pixel whose own source value is `own`
\* when the map sends it to its own coordinate
ResampleOwn(own, m, k) ==
    IF m.nan THEN OpenPx(k) ELSE IF ScaleIsOne(m) THEN own ELSE OpenPx(k)

\* map_y = center_y + rel_y * scale, map_x = center_x + rel_x * scale, as
\* fractions over the common denominator 2 * d_src_den * valid_d
Resample(img, p, m, k) ==
    LET den == 2 * m.d_src_den * m.valid_d
        yn == img.h * (den \div 2) + (2 * p[1] - img.h) * m.d_src_num
        xn == img.w * (den \div 2) + (2 * p[2] - img.w) * m.d_src_num
    IN  IF m.nan \/ ScaleIsOne(m) THEN ResampleOwn(img.px[p], m, k)
        ELSE IF yn < 0 \/ yn > (img.h - 1) * den \/ xn < 0 \/ xn > (img.w - 1) * den
        THEN TransparentPx
        ELSE IF yn % den = 0 /\ xn % den = 0
        THEN img.px[<<yn \div den, xn \div den>>]
        ELSE OpenPx(k)

(***************************************************************************)
(* Console output and call results                                         *)
(***************************************************************************)
NoFile == "-"
\* Image.open finds no readable image at the path
Missing == [w |-> -1, h |-> -1, px |-> <<>>]

\* one print(): the message and the file path it contains, if any
Msg(text, file) == [text |-> text, file |-> file]

\* how a call ends: signal is what the caller's try/except observes
Result(outcome, signal, out, prints, geom) ==
    [outcome |-> outcome, signal |-> signal, wrote |-> (outcome = "saved"),
     out |-> out, prints |-> prints, geom |-> geom]

NoResult == Result("pending", "return", NoImage, <<>>, NoGeom)

Raised(prints, geom) == Result("raised", "exception", NoImage, prints, geom)

(***************************************************************************)
(* squash_hex_frame / squash_hex_frame_v2                                  *)
(***************************************************************************)
\* (variant of ZerosLikeShape: the buffer allocated as (width, height))
ZerosLikeShape_Transposed(img) == [w |-> img.h, h |-> img.w]

\* new_data = np.zeros_like(data): the shape of the output buffer
ZerosLikeShape(img) == [w |-> img.w, h |-> img.h]

\* steps 4-6: coordinate map, resampling, final alpha
SquashBuffer(variant, img, g, fn, k) ==
    LET d == DistField(variant, img.w, img.h)
        shape == ZerosLikeShape(img)
        map == [p \in Coords(img.w, img.h) |-> CoordinateMap(variant, g, fn, d[p])]
        new_data == [p \in Coords(img.w, img.h) |-> Resample(img, p, map[p], k)]
    IN  [w |-> shape.w, h |-> shape.h,
         px |-> [p \in Coords(img.w, img.h) |->
                    [rgb |-> new_data[p].rgb,
                     a |-> MaskedAlpha(new_data[p].a, g.tgt_inner, g.tgt_outer,
                                       EdgeSoftness, d[p])]]]

\* squash_hex_frame(input_path, output_path=input_path, compression_factor=fn/FDen)
\* content is what Image.open finds at input_path, writable whether save succeeds
squash_hex_frame(path, content, writable, fn, k) ==
    LET start == <<Msg("Procesando", path)>>
        b == SourceBounds(Squash, content)
        g == SymmetricTarget(b.inner, b.outer, fn)
        shown == start \o <<Msg("Original", NoFile), Msg("Objetivo", NoFile)>>
    IN  IF content = Missing THEN Raised(start, NoGeom)
        ELSE IF OccupiedMask(content) = {}
        THEN Result("empty", "return", NoImage,
                    start \o <<Msg("Imagen vacia, saltando.", NoFile)>>, NoGeom)
        ELSE IF ~writable THEN Raised(shown, g)
        ELSE Result("saved", "return", SquashBuffer(Squash, content, g, fn, k),
                    shown \o <<Msg("Guardado", path)>>, g)

squash_hex_frame_v2(path, content, writable, fn, k) ==
    LET start == <<Msg("Procesando", path)>>
        b == SourceBounds(SquashV2, content)
        g == SymmetricTarget(b.inner, b.outer, fn)
        shown == start \o <<Msg("Geometria", NoFile)>>
    IN  IF content = Missing THEN Raised(start, NoGeom)
        ELSE IF OccupiedMask(content) = {}
        THEN Result("empty", "return", NoImage,
                    start \o <<Msg("Imagen vacia.", NoFile)>>, NoGeom)
        ELSE IF ~writable THEN Raised(shown, g)
        ELSE Result("saved", "return", SquashBuffer(SquashV2, content, g, fn, k),
                    shown \o <<Msg("Guardado", path)>>, g)

(***************************************************************************)
(* smart_hex_crop                                                          *)
(***************************************************************************)
\* (variant of InnerBiasedTarget: the shrink taken equally from both edges)
InnerBiasedTarget_Symmetric(current_inner_dist, current_outer_dist, fn) ==
    SymmetricTarget(current_inner_dist, current_outer_dist, fn)

\* shrink_amount = (current - target) / 2; outer - 0.5 * shrink, inner + 1.5 * shrink
InnerBiasedTarget(current_inner_dist, current_outer_dist, fn) ==
    LET current_thickness == current_outer_dist - current_inner_dist
        target_thickness == (current_thickness * fn) \div FDen
        shrink_amount == (current_thickness - target_thickness) \div 2
    IN  [src_inner |-> current_inner_dist, src_outer |-> current_outer_dist,
         src_thickness |-> current_thickness,
         src_center |-> (current_inner_dist + current_outer_dist) \div 2,
         tgt_thickness |-> target_thickness,
         tgt_inner |-> current_inner_dist + (3 * shrink_amount) \div 2,
         tgt_outer |-> current_outer_dist - shrink_amount \div 2]

\* (variant of CropBuffer: the mask replaces the alpha channel, no minimum taken)
CropBuffer_Replace(img, g, smoothing) ==
    LET d == create_hex_distance_field(img.w, img.h)
    IN  [w |-> img.w, h |-> img.h,
         px |-> [p \in Coords(img.w, img.h) |->
                    [rgb |-> img.px[p].rgb,
                     a |-> MaskedAlpha(255, g.tgt_inner, g.tgt_outer, smoothing, d[p])]]]

\* final_alpha = np.minimum(data[:,:,3], (mask_f * 255).astype(np.uint8)); data is
\* modified in place, so shape and colour channels are those of the input
CropBuffer(img, g, smoothing) ==
    LET d == create_hex_distance_field(img.w, img.h)
    IN  [w |-> img.w, h |-> img.h,
         px |-> [p \in Coords(img.w, img.h) |->
                    [rgb |-> img.px[p].rgb,
                     a |-> Min(img.px[p].a,
                               MaskedAlpha(255, g.tgt_inner, g.tgt_outer, smoothing, d[p]))]]]

\* smart_hex_crop(input_path, output_path=input_path, thickness_factor=fn/FDen, smoothing)
smart_hex_crop(path, content, writable, fn, smoothing) ==
    LET b == SourceBounds(SmartCrop, content)
        g == InnerBiasedTarget(b.inner, b.outer, fn)
        shown == <<Msg("Geometria detectada", NoFile), Msg("Nuevos limites", NoFile)>>
    IN  IF content = Missing THEN Raised(<<>>, NoGeom)
        ELSE IF OccupiedMask(content) = {}
        THEN Result("empty", "return", NoImage,
                    <<Msg("Advertencia: Imagen vacia", path)>>, NoGeom)
        ELSE IF ~writable THEN Raised(shown, g)
        ELSE Result("saved", "return", CropBuffer(content, g, smoothing),
                    shown \o <<Msg("Procesado con geometria perfecta", path)>>, g)

(***************************************************************************)
(* thin_frame                                                              *)
(***************************************************************************)
OpaqueThreshold == 128

\* (variant of binary_erosion: a full 3x3 structuring element)
binary_erosion_Square(w, h, mask) ==
    {p \in mask :
        \A q \in (p[1] - 1 .. p[1] + 1) \X (p[2] - 1 .. p[2] + 1) : q \in mask}

\* ndimage.binary_erosion(mask): default cross-shaped structure, border_value=0
binary_erosion(w, h, mask) ==
    {p \in mask :
        \A q \in {<<p[1] - 1, p[2]>>, <<p[1] + 1, p[2]>>, <<p[1], p[2] - 1>>, <<p[1], p[2] + 1>>} :
            q \in mask}

RECURSIVE Erode(_, _, _, _)
Erode(w, h, mask, n) ==
    IF n = 0 THEN mask ELSE Erode(w, h, binary_erosion(w, h, mask), n - 1)

ThinBuffer(img, erosion_iterations) ==
    LET mask == {p \in Coords(img.w, img.h) : img.px[p].a > OpaqueThreshold}
        eroded_mask == Erode(img.w, img.h, mask, erosion_iterations)
        pixels_to_remove == mask \ eroded_mask
    IN  [w |-> img.w, h |-> img.h,
         px |-> [p \in Coords(img.w, img.h) |->
                    IF p \in pixels_to_remove THEN [rgb |-> img.px[p].rgb, a |-> 0]
                    ELSE img.px[p]]]

thin_frame(path, content, writable, erosion_iterations) ==
    IF content = Missing \/ ~writable THEN Raised(<<>>, NoGeom)
    ELSE Result("saved", "return", ThinBuffer(content, erosion_iterations),
                <<Msg("Procesado", path)>>, NoGeom)

(***************************************************************************)
(* normalize_textures.py                                                   *)
(***************************************************************************)
TARGET_SIZE == 512
BACKGROUND_THRESHOLD == 240
ContentThreshold == 10
\* margin = 0.1: scale = TARGET_SIZE * (1 - margin) / max_dim = TARGET_SIZE * 9 / (10 * max_dim)
MarginDen == 10

\* data[white_mask, 3] = 0
remove_white_background(img) ==
    [img EXCEPT !.px = [p \in Coords(img.w, img.h) |->
        IF img.px[p].rgb > BACKGROUND_THRESHOLD THEN [rgb |-> img.px[p].rgb, a |-> 0]
        ELSE img.px[p]]]

\* (cmin, rmin, cmax + 1, rmax + 1), or <<>> for None
get_content_bbox(img) ==
    LET rows == {p[1] : p \in {q \in Coords(img.w, img.h) : img.px[q].a > ContentThreshold}}
        cols == {p[2] : p \in {q \in Coords(img.w, img.h) : img.px[q].a > ContentThreshold}}
        lo(S) == CHOOSE v \in S : \A u \in S : v <= u
        hi(S) == CHOOSE v \in S : \A u \in S : v >= u
    IN  IF rows = {} \/ cols = {} THEN <<>>
        ELSE <<lo(cols), lo(rows), hi(cols) + 1, hi(rows) + 1>>

\* the 512 x 512 canvas; px records where the resized crop is pasted:
\* <<x, y, new_width, new_height>>
NormalizedCanvas(bbox) ==
    LET width == bbox[3] - bbox[1]
        height == bbox[4] - bbox[2]
        max_dim == Max(width, height)
        new_width == (width * TARGET_SIZE * (MarginDen - 1)) \div (MarginDen * max_dim)
        new_height == (height * TARGET_SIZE * (MarginDen - 1)) \div (MarginDen * max_dim)
    IN  [w |-> TARGET_SIZE, h |-> TARGET_SIZE,
         px |-> <<(TARGET_SIZE - new_width) \div 2, (TARGET_SIZE - new_height) \div 2,
                  new_width, new_height>>]

normalize_texture(path, content, writable) ==
    LET start == <<Msg("Procesando", path)>>
        bbox == get_content_bbox(remove_white_background(content))
    IN  IF content = Missing THEN Raised(start, NoGeom)
        ELSE IF bbox = <<>>
        THEN Result("empty", "return", NoImage,
                    start \o <<Msg("No se encontro contenido en la imagen", NoFile)>>, NoGeom)
        ELSE IF ~writable THEN Raised(start, NoGeom)
        ELSE Result("saved", "return", NormalizedCanvas(bbox),
                    start \o <<Msg("Guardado", path)>>, NoGeom)

(***************************************************************************)
(* Icon extraction from a horizontal strip: extract_uniform.py,            *)
(* extract_dynamic.py, extract_smart.py                                    *)
(***************************************************************************)
StripMaxWidth == 5

ExtractUniform == "extract_horizontal_uniform"
ExtractDynamic == "analyze_and_extract"
ExtractSmart == "analyze_and_extract_smart"
ExtractSmartTight == "extract_smart_tight"
ExtractFinalTight == "extract_final_tight"

\* cols = 4
GridCols == 4
\* has_content = x_projection > 100 (extract_smart), > 0 (extract_dynamic)
NoiseThreshold == 100
\* alpha_threshold=20 of extract_final_tight
alpha_threshold == 20

\* the columns a strip is drawn from, top pixel first: empty, content in the
\* lower row, content in both rows, a faint pixel in the upper row
ColumnVals ==
    {<<TransparentPx, TransparentPx>>,
     <<TransparentPx, [rgb |-> 250, a |-> 255]>>,
     <<[rgb |-> 250, a |-> 255], [rgb |-> 250, a |-> 255]>>,
     <<[rgb |-> 120, a |-> 15], TransparentPx>>}

\* strips of GridCols .. n columns
Strips(n) ==
    UNION {{[w |-> w, h |-> 2, px |-> [p \in Coords(w, 2) |-> cols[p[2] + 1][p[1] + 1]]] :
               cols \in [1 .. w -> ColumnVals]}
           : w \in GridCols .. n}

SetMin(S) == CHOOSE v \in S : \A u \in S : v <= u
SetMax(S) == CHOOSE v \in S : \A u \in S : v >= u

\* the elements of a finite set of integers in ascending order
RECURSIVE Ascending(_)
Ascending(S) == IF S = {} THEN <<>> ELSE <<SetMin(S)>> \o Ascending(S \ {SetMin(S)})

\* Image.fromarray(data[:, x1:x2], 'RGBA').getbbox(): (left, upper, right, lower)
\* of the pixels that are not transparent, relative to the section, or <<>> for
\* None.
getbbox(img, x1, x2) ==
    LET P == {p \in Coords(img.w, img.h) : p[2] >= x1 /\ p[2] < x2 /\ img.px[p].a # 0}
    IN  IF P = {} THEN <<>>
        ELSE <<SetMin({p[2] : p \in P}) - x1, SetMin({p[1] : p \in P}),
               SetMax({p[2] : p \in P}) - x1 + 1, SetMax({p[1] : p \in P}) + 1>>

NoCrop == [w |-> 0, h |-> 0, src_x |-> -1, src_y |-> -1]

\* cropped = section_img.crop(bbox), or None: its size and where it lies in the strip
CropOf(img, x1, x2) ==
    LET bbox == getbbox(img, x1, x2)
    IN  IF bbox = <<>> THEN NoCrop
        ELSE [w |-> bbox[3] - bbox[1], h |-> bbox[4] - bbox[2],
              src_x |-> x1 + bbox[1], src_y |-> bbox[2]]

\* x_projection = np.sum(alpha, axis=0)
RECURSIVE ColumnSum(_, _, _)
ColumnSum(img, c, rows) ==
    IF rows = 0 THEN 0 ELSE img.px[<<rows - 1, c>>].a + ColumnSum(img, c, rows - 1)

\* has_content = x_projection > threshold
HasContent(img, threshold) ==
    [c \in 0 .. img.w - 1 |-> ColumnSum(img, c, img.h) > threshold]

\* diff = np.diff(has_content.astype(int))
Diff(has_content) ==
    [i \in 0 .. Cardinality(DOMAIN has_content) - 2 |->
        (IF has_content[i + 1] THEN 1 ELSE 0) - (IF has_content[i] THEN 1 ELSE 0)]

\* np.where(diff == v)[0] + 1
WhereDiff(has_content, v) ==
    LET diff == Diff(has_content)
    IN  Ascending({i + 1 : i \in {j \in DOMAIN diff : diff[j] = v}})

\* starts, with 0 inserted in front when the first column has content
Starts(has_content) ==
    (IF has_content[0] THEN <<0>> ELSE <<>>) \o WhereDiff(has_content, 1)

\* (variant of Ends: without the case of content in the last column)
Ends_NoEdgeCase(has_content) == WhereDiff(has_content, -1)

\* ends, with width appended when the last column has content
Ends(has_content) ==
    LET width == Cardinality(DOMAIN has_content)
    IN  WhereDiff(has_content, -1) \o (IF has_content[width - 1] THEN <<width>> ELSE <<>>)

\* list(zip(starts, ends))
Zip(starts, ends) ==
    [i \in 1 .. Min(Len(starts), Len(ends)) |-> <<starts[i], ends[i]>>]

\* the sections as the sequence of (start, end)
Sections(img, threshold) ==
    Zip(Starts(HasContent(img, threshold)), Ends(HasContent(img, threshold)))

\* what the column analysis found: has_content, starts, ends, and the lists
\* valid_sections and merged_sections of the functions that filter and merge
Runs(has_content, valid_sections, merged_sections) ==
    LET starts == Starts(has_content)
        ends == Ends(has_content)
    IN  [has_content |-> has_content, starts |-> starts, ends |-> ends,
         sections |-> Zip(starts, ends),
         valid_sections |-> valid_sections, merged_sections |-> merged_sections]

NoRuns == [has_content |-> <<>>, starts |-> <<>>, ends |-> <<>>, sections |-> <<>>,
           valid_sections |-> <<>>, merged_sections |-> <<>>]

\* (variant of PastePosition: the crop pasted at the canvas origin)
PastePosition_Origin(final, size) == 0

\* x_pos = (final_w - cropped.width) // 2
PastePosition(final, size) == (final - size) \div 2

\* max_w, max_h over the crops found; final size; one saved icon per crop that
\* is not None, named icon_names[i], with the crop pasted centred
UnifiedIcons(crops, icon_names, padding) ==
    LET found == {i \in DOMAIN crops : crops[i] # NoCrop}
        max_w == IF found = {} THEN 0 ELSE SetMax({crops[i].w : i \in found})
        max_h == IF found = {} THEN 0 ELSE SetMax({crops[i].h : i \in found})
        final_w == max_w + padding * 2
        final_h == max_h + padding * 2
        order == Ascending(found)
    IN  [i \in DOMAIN order |->
            [name |-> icon_names[order[i]], w |-> final_w, h |-> final_h,
             x_pos |-> PastePosition(final_w, crops[order[i]].w),
             y_pos |-> PastePosition(final_h, crops[order[i]].h),
             crop |-> crops[order[i]]]]

\* how an extraction ends: the crops taken and the icon files written
Extracted(signal, prints, runs, crops, saved) ==
    [outcome |-> IF signal = "exception" THEN "raised" ELSE "saved", signal |-> signal,
     prints |-> prints, runs |-> runs, crops |-> crops, saved |-> saved]

NoExtract == [outcome |-> "pending", signal |-> "return", prints |-> <<>>,
              runs |-> NoRuns, crops |-> <<>>, saved |-> <<>>]

SavedPrints(saved) == [i \in DOMAIN saved |-> Msg("Guardado", saved[i].name)]

\* extract_horizontal_uniform(input_path, output_dir, icon_names, padding):
\* four cells of width // 4, one crop (or None) per named cell
extract_horizontal_uniform(path, content, icon_names, padding) ==
    LET start == <<Msg("Procesando", path)>>
        tile_width == content.w \div GridCols
        n == Min(GridCols, Len(icon_names))
        crops == [i \in 1 .. n |-> CropOf(content, (i - 1) * tile_width, i * tile_width)]
        saved == UnifiedIcons(crops, icon_names, padding)
    IN  IF content = Missing THEN Extracted("exception", start, NoRuns, <<>>, <<>>)
        ELSE Extracted("return",
                       start \o <<Msg("Tamano unificado final", NoFile)>> \o SavedPrints(saved),
                       NoRuns, crops, saved)

\* analyze_and_extract(input_path, output_dir, icon_names, padding):
\* one section per run of columns with content
analyze_and_extract(path, content, icon_names, padding) ==
    LET start == <<Msg("Analizando distribucion", path)>>
        sections == Sections(content, 0)
        n == Min(Len(sections), Len(icon_names))
        crops == [i \in 1 .. n |-> CropOf(content, sections[i][1], sections[i][2])]
        saved == UnifiedIcons(crops, icon_names, padding)
        warning == IF Len(sections) # Len(icon_names)
                   THEN <<Msg("ADVERTENCIA", NoFile)>> ELSE <<>>
    IN  IF content = Missing THEN Extracted("exception", start, NoRuns, <<>>, <<>>)
        ELSE Extracted("return",
                       start \o warning \o <<Msg("Tamano unificado final", NoFile)>>
                             \o SavedPrints(saved),
                       Runs(HasContent(content, 0), <<>>, <<>>), crops, saved)

\* (variant of MergedSections: the kept sections as they are)
MergedSections_Unmerged(valid, merge_gap) == valid

\* valid_sections = [s for s in sections if (s[1] - s[0]) > min_width]
ValidSections(sections, min_width) ==
    SelectSeq(sections, LAMBDA sec : sec[2] - sec[1] > min_width)

\* the merge loop: a section closer than merge_gap to the current one extends it
RECURSIVE MergeFrom(_, _, _, _, _)
MergeFrom(valid, i, curr_start, curr_end, merge_gap) ==
    IF i > Len(valid) THEN <<<<curr_start, curr_end>>>>
    ELSE IF valid[i][1] - curr_end < merge_gap
    THEN MergeFrom(valid, i + 1, curr_start, valid[i][2], merge_gap)
    ELSE <<<<curr_start, curr_end>>>> \o
         MergeFrom(valid, i + 1, valid[i][1], valid[i][2], merge_gap)

MergedSections(valid, merge_gap) ==
    IF valid = <<>> THEN <<>>
    ELSE MergeFrom(valid, 2, valid[1][1], valid[1][2], merge_gap)

\* analyze_and_extract_smart(input_path, output_dir, icon_names, min_width, merge_gap, padding)
analyze_and_extract_smart(path, content, icon_names, min_width, merge_gap, padding) ==
    LET start == <<Msg("Analizando distribucion INTELIGENTE", path)>>
        sections == Sections(content, NoiseThreshold)
        valid_sections == ValidSections(sections, min_width)
        merged_sections == MergedSections(valid_sections, merge_gap)
        n == Min(Len(merged_sections), Len(icon_names))
        crops == [i \in 1 .. n |->
                     CropOf(content, merged_sections[i][1], merged_sections[i][2])]
        saved == UnifiedIcons(crops, icon_names, padding)
        warning == IF Len(merged_sections) # Len(icon_names)
                   THEN <<Msg("ADVERTENCIA", NoFile)>> ELSE <<>>
    IN  IF content = Missing THEN Extracted("exception", start, NoRuns, <<>>, <<>>)
        ELSE Extracted("return",
                       start \o warning \o <<Msg("Tamano unificado final", NoFile)>>
                             \o SavedPrints(saved),
                       Runs(HasContent(content, NoiseThreshold), valid_sections,
                            merged_sections),
                       crops, saved)

\* the icons of the tight extractors: each crop found saved under its name,
\* with `padding` transparent pixels around it when padding > 0, as it is otherwise
TightIcons(crops, icon_names, padding) ==
    LET order == Ascending({i \in DOMAIN crops : crops[i] # NoCrop})
        border == IF padding > 0 THEN padding ELSE 0
    IN  [i \in DOMAIN order |->
            [name |-> icon_names[order[i]],
             w |-> crops[order[i]].w + border * 2, h |-> crops[order[i]].h + border * 2,
             x_pos |-> border, y_pos |-> border, crop |-> crops[order[i]]]]

\* print of each section looked at: the icon written, or "Vacio"
TightPrints(crops, icon_names) ==
    [i \in DOMAIN crops |->
        Msg(IF crops[i] # NoCrop THEN "Extraido" ELSE "Vacio", icon_names[i])]

\* extract_smart_tight(input_path, output_dir, icon_names, min_width, merge_gap, padding)
extract_smart_tight(path, content, icon_names, min_width, merge_gap, padding) ==
    LET start == <<Msg("Extraccion INTELIGENTE + RECORTE EXACTO", path)>>
        sections == Sections(content, NoiseThreshold)
        valid_sections == ValidSections(sections, min_width)
        merged_sections == MergedSections(valid_sections, merge_gap)
        n == Min(Len(merged_sections), Len(icon_names))
        crops == [i \in 1 .. n |->
                     CropOf(content, merged_sections[i][1], merged_sections[i][2])]
    IN  IF content = Missing THEN Extracted("exception", start, NoRuns, <<>>, <<>>)
        ELSE Extracted("return",
                       start \o <<Msg("Iconos detectados", NoFile)>>
                             \o TightPrints(crops, icon_names),
                       Runs(HasContent(content, NoiseThreshold), valid_sections,
                            merged_sections),
                       crops, TightIcons(crops, icon_names, padding))

\* clean_alpha[clean_alpha < alpha_threshold] = 0
CleanAlpha(img, threshold) ==
    [img EXCEPT !.px = [p \in Coords(img.w, img.h) |->
                           IF img.px[p].a < threshold
                           THEN [rgb |-> img.px[p].rgb, a |-> 0] ELSE img.px[p]]]

\* extract_final_tight(input_path, output_dir, icon_names, min_width, merge_gap,
\* padding, alpha_threshold)
extract_final_tight(path, content, icon_names, min_width, merge_gap, padding, threshold) ==
    LET start == <<Msg("Extraccion FINAL", path)>>
        clean == CleanAlpha(content, threshold)
        sections == Sections(clean, 0)
        valid_sections == ValidSections(sections, min_width)
        merged_sections == MergedSections(valid_sections, merge_gap)
        n == Min(Len(merged_sections), Len(icon_names))
        crops == [i \in 1 .. n |->
                     CropOf(clean, merged_sections[i][1], merged_sections[i][2])]
    IN  IF content = Missing THEN Extracted("exception", start, NoRuns, <<>>, <<>>)
        ELSE Extracted("return",
                       start \o <<Msg("Iconos detectados", NoFile)>>
                             \o TightPrints(crops, icon_names),
                       Runs(HasContent(clean, 0), valid_sections, merged_sections),
                       crops, TightIcons(crops, icon_names, padding))

(***************************************************************************)
(* One destination pixel of a large ring image: steps 3-6 of               *)
(* squash_hex_frame / squash_hex_frame_v2 for given detected bounds        *)
(***************************************************************************)
\* image size and detected inner / outer distance, in whole pixels
Rings == {[size |-> 512, inner |-> 180, outer |-> 220],
          [size |-> 16, inner |-> 2, outer |-> 6],
          [size |-> 16, inner |-> 4, outer |-> 4]}

\* the destination pixels looked at: the centre row and the centre column
AxisPixels(size) ==
    {<<size \div 2, c>> : c \in 0 .. size - 1} \cup {<<r, size \div 2>> : r \in 0 .. size - 1}

DistAt(variant, size, p) ==
    IF variant = SquashV2 THEN HexDistPointy(2 * p[2] - size, 2 * p[1] - size)
    ELSE HexDist(2 * p[2] - size, 2 * p[1] - size)

NoProbe == [variant |-> "-", ring |-> [size |-> 0, inner |-> 0, outer |-> 0], fn |-> FDen,
            p |-> <<0, 0>>, own |-> TransparentPx, k |-> 0, d |-> -1, geom |-> NoGeom,
            remapped |-> FALSE, map |-> IdentityMap, sampled |-> TransparentPx,
            mask |-> NoMask, out |-> TransparentPx]

(***************************************************************************)
(* The batch drivers: the module-level loops over `frames` and             *)
(* normalize_textures.main                                                 *)
(***************************************************************************)
MaxListing == 2

Scripts == {Squash, SquashV2, SmartCrop, ThinFrame, Normalize}

frames == <<"hex_frame_clouds.png", "hex_frame_stone.png",
            "hex_frame_vines.png", "hex_frame_wood.png">>

\* os.listdir(INPUT_DIR): any order, no name twice
DirEntries == {"house.png", "TOWER.PNG", "notes.txt"}
Listings(m) ==
    {l \in UNION {[1 .. n -> DirEntries] : n \in 0 .. m} :
        \A a, b \in DOMAIN l : a # b => l[a] # l[b]}

\* f.lower().endswith('.png')
IsPng(f) == f # "notes.txt"

\* the arguments each loop passes
BatchFactor(s) == IF s = SmartCrop THEN 6 ELSE 5
BatchErosion == 2

\* the call in the loop body
CallScript(s, path, content, writable, fn, k) ==
    IF s = Squash THEN squash_hex_frame(path, content, writable, fn, k)
    ELSE IF s = SquashV2 THEN squash_hex_frame_v2(path, content, writable, fn, k)
    ELSE IF s = SmartCrop THEN smart_hex_crop(path, content, writable, fn, EdgeSoftness)
    ELSE IF s = ThinFrame THEN thin_frame(path, content, writable, BatchErosion)
    ELSE normalize_texture(path, content, writable)

\* (variant of TryExcept: the exception is printed and leaves the loop)
TryExcept_Reraise(res, path) ==
    [prints |-> res.prints \o
                (IF res.signal = "exception" THEN <<Msg("Error", path)>> ELSE <<>>),
     proceed |-> res.signal # "exception"]

\* try: ... except Exception as e: print(f"Error en {f}: {e}") -- the loop goes on
TryExcept(res, path) ==
    [prints |-> res.prints \o
                (IF res.signal = "exception" THEN <<Msg("Error", path)>> ELSE <<>>),
     proceed |-> TRUE]

\* the line printed before the loop
Banner(s) ==
    IF s = ThinFrame THEN <<Msg("Adelgazando todos los marcos", NoFile)>>
    ELSE IF s = Normalize THEN <<Msg("Encontradas", NoFile)>>
    ELSE <<Msg("Iniciando", NoFile)>>

\* what follows the loop
Epilogue(s) ==
    IF s = ThinFrame THEN <<Msg("Todos los marcos adelgazados exitosamente", NoFile)>>
    ELSE IF s = Normalize THEN <<Msg("Proceso completado", NoFile)>>
    ELSE <<>>

\* the files the loops work on are not part of the state
NoDisk == <<>>

NoCall == [script |-> "-", file |-> NoFile, input |-> NoImage, writable |-> TRUE,
           fn |-> FDen, k |-> 0, res |-> NoResult]

Init ==
    /\ script \in Scripts
    /\ files \in IF script = Normalize THEN {SelectSeq(l, IsPng) : l \in Listings(MaxListing)}
                 ELSE {frames}
    /\ idx = 1
    /\ pc = "start"
    /\ attempted = <<>>
    /\ log = <<>>
    /\ call = NoCall
    /\ probe = NoProbe
    /\ disk = NoDisk

\* the banner; main() returns at once on an empty listing
Start ==
    /\ pc = "start"
    /\ IF script = Normalize /\ files = <<>>
       THEN /\ log' = <<Msg("No se encontraron archivos PNG", NoFile)>>
            /\ pc' = "done"
       ELSE /\ log' = Banner(script)
            /\ pc' = "loop"
    /\ UNCHANGED <<script, files, idx, attempted, call, probe, disk>>

\* one iteration of the for loop: the call and its except clause
Iterate ==
    /\ pc = "loop"
    /\ idx <= Len(files)
    /\ \E content \in {Missing} \cup Images(BatchMaxPixels), writable \in BOOLEAN,
          k \in SampleVals :
          LET path == files[idx]
              res == CallScript(script, path, content, writable, BatchFactor(script), k)
              handled == TryExcept(res, path)
          IN  /\ call' = [script |-> script, file |-> path, input |-> content,
                          writable |-> writable, fn |-> BatchFactor(script), k |-> k,
                          res |-> res]
              /\ attempted' = Append(attempted, path)
              /\ log' = log \o handled.prints
              /\ pc' = IF handled.proceed THEN "loop" ELSE "aborted"
    /\ idx' = idx + 1
    /\ UNCHANGED <<script, files, probe, disk>>

\* the loop is exhausted: the closing message, if the script has one
Finish ==
    /\ pc = "loop"
    /\ idx > Len(files)
    /\ log' = log \o Epilogue(script)
    /\ pc' = "done"
    /\ UNCHANGED <<script, files, idx, attempted, call, probe, disk>>

Next == Start \/ Iterate \/ Finish

Spec == Init /\ [][Next]_vars

(***************************************************************************)
(* The loops over `frames` with the files on disk, taken in any order:     *)
(* each call reads its file and saves the result over it (f, f)            *)
(***************************************************************************)
\* what the frame files may hold before the run
DiskContents ==
    {Missing,
     [w |-> 1, h |-> 1, px |-> [p \in Coords(1, 1) |-> [rgb |-> 250, a |-> 255]]],
     [w |-> 1, h |-> 3, px |-> [p \in Coords(1, 3) |->
                                   IF p[1] = 2 THEN [rgb |-> 120, a |-> 15]
                                   ELSE [rgb |-> 250, a |-> 255]]]}

Range(seq) == {seq[i] : i \in DOMAIN seq}

Disks(contents) ==
    {[f \in Range(frames) |-> [orig |-> c[f], cur |-> c[f]]] : c \in [Range(frames) -> contents]}

\* (variant of SaveOutput: every call saves to the first path of the list)
SaveOutput_SharedPath(d, path, res) ==
    IF res.wrote THEN [d EXCEPT ![frames[1]].cur = res.out] ELSE d

\* Image.fromarray(...).save(output_path), output_path = f
SaveOutput(d, path, res) ==
    IF res.wrote THEN [d EXCEPT ![path].cur = res.out] ELSE d

InitOrder ==
    /\ script \in {Squash, SquashV2, SmartCrop, ThinFrame}
    /\ files = frames
    /\ idx = 1
    /\ pc = "start"
    /\ attempted = <<>>
    /\ log = <<>>
    /\ call \in {[NoCall EXCEPT !.k = k] : k \in SampleVals}
    /\ probe = NoProbe
    /\ disk \in Disks(DiskContents)

\* the loop body for any file of the list not yet processed
ProcessAny ==
    /\ pc = "loop"
    /\ \E i \in DOMAIN files :
          /\ files[i] \notin Range(attempted)
          /\ LET path == files[i]
                 res == CallScript(script, path, disk[path].cur, TRUE,
                                   BatchFactor(script), call.k)
                 handled == TryExcept(res, path)
             IN  /\ call' = [script |-> script, file |-> path, input |-> disk[path].cur,
                             writable |-> TRUE, fn |-> BatchFactor(script), k |-> call.k,
                             res |-> res]
                 /\ attempted' = Append(attempted, path)
                 /\ log' = log \o handled.prints
                 /\ disk' = SaveOutput(disk, path, res)
                 /\ pc' = IF handled.proceed THEN "loop" ELSE "aborted"
    /\ idx' = idx + 1
    /\ UNCHANGED <<script, files, probe>>

NextOrder == Start \/ ProcessAny \/ Finish

SpecOrder == InitOrder /\ [][NextOrder]_vars

(***************************************************************************)
(* One call of one transform on an arbitrary small image                   *)
(***************************************************************************)
\* compression_factor / thickness_factor, in tenths: the value each loop passes, and 1.0
Factors(s) == {BatchFactor(s), FDen}

\* the argument lists of the calls made, for images of at most n pixels
CallArgs(n) ==
    {[script |-> s, file |-> frames[1], input |-> c, writable |-> TRUE,
      fn |-> f, k |-> k, res |-> NoResult] :
        s \in {Squash, SquashV2}, c \in {Missing} \cup Images(n),
        f \in Factors(Squash), k \in SampleVals}
    \cup
    {[script |-> SmartCrop, file |-> frames[1], input |-> c, writable |-> TRUE,
      fn |-> f, k |-> 0, res |-> NoResult] :
        c \in {Missing} \cup Images(n), f \in Factors(SmartCrop)}
    \cup
    {[script |-> ThinFrame, file |-> frames[1], input |-> c, writable |-> TRUE,
      fn |-> FDen, k |-> 0, erosion_iterations |-> BatchErosion, res |-> NoResult] :
        c \in {Missing} \cup Images(n)}

InitCall ==
    /\ call \in CallArgs(MaxPixels)
    /\ script = call.script
    /\ files = <<call.file>>
    /\ idx = 1
    /\ pc = "call"
    /\ attempted = <<>>
    /\ log = <<>>
    /\ probe = NoProbe
    /\ disk = NoDisk

Returns(res) ==
    /\ call' = [call EXCEPT !.res = res]
    /\ log' = res.prints
    /\ attempted' = <<call.file>>
    /\ pc' = "returned"
    /\ UNCHANGED <<script, files, idx, probe, disk>>

CallSquash ==
    /\ pc = "call" /\ script = Squash
    /\ Returns(squash_hex_frame(call.file, call.input, call.writable, call.fn, call.k))

CallSquashV2 ==
    /\ pc = "call" /\ script = SquashV2
    /\ Returns(squash_hex_frame_v2(call.file, call.input, call.writable, call.fn, call.k))

CallSmartCrop ==
    /\ pc = "call" /\ script = SmartCrop
    /\ Returns(smart_hex_crop(call.file, call.input, call.writable, call.fn, EdgeSoftness))

CallThinFrame ==
    /\ pc = "call" /\ script = ThinFrame
    /\ Returns(thin_frame(call.file, call.input, call.writable, call.erosion_iterations))

NextCall == CallSquash \/ CallSquashV2 \/ CallSmartCrop \/ CallThinFrame

SpecCall == InitCall /\ [][NextCall]_vars

(***************************************************************************)
(* One call of thin_frame on a frame large enough to keep an interior      *)
(***************************************************************************)
ThinSide == 5
MaxHoles == 2

OpaquePx == [rgb |-> 250, a |-> 255]
\* pixels that are not in the mask a > 128: transparent, and exactly at the threshold
HoleVals == {TransparentPx, [rgb |-> 120, a |-> OpaqueThreshold]}

\* the subsets of S of no more than m elements
RECURSIVE SmallSubsets(_, _)
SmallSubsets(S, m) ==
    IF m = 0 THEN {{}}
    ELSE LET smaller == SmallSubsets(S, m - 1)
         IN  smaller \cup {x \cup {p} : x \in smaller, p \in S}

\* square images of the given side, opaque except at no more than m pixels
HoledImages(side, m) ==
    {[w |-> side, h |-> side,
      px |-> [p \in Coords(side, side) |-> IF p \in DOMAIN f THEN f[p] ELSE OpaquePx]] :
        f \in UNION {[hs -> HoleVals] : hs \in SmallSubsets(Coords(side, side), m)}}

ThinArgs(side, m) ==
    {[script |-> ThinFrame, file |-> frames[1], input |-> c, writable |-> TRUE,
      fn |-> FDen, k |-> 0, erosion_iterations |-> e, res |-> NoResult] :
        c \in HoledImages(side, m), e \in 0 .. BatchErosion}

InitThin ==
    /\ call \in ThinArgs(ThinSide, MaxHoles)
    /\ script = call.script
    /\ files = <<call.file>>
    /\ idx = 1
    /\ pc = "call"
    /\ attempted = <<>>
    /\ log = <<>>
    /\ probe = NoProbe
    /\ disk = NoDisk

NextThin == CallThinFrame

SpecThin == InitThin /\ [][NextThin]_vars

\* the pixels of every ring, for both scripts and the factors 0.5 and 1.0
ProbeArgs(rings) ==
    UNION {{[NoProbe EXCEPT !.variant = v, !.ring = r, !.fn = f, !.p = p, !.own = o, !.k = k] :
               v \in {Squash, SquashV2}, f \in Factors(Squash), p \in AxisPixels(r.size),
               o \in PixelVals, k \in SampleVals}
           : r \in rings}

InitPixel ==
    /\ probe \in ProbeArgs(Rings)
    /\ script = probe.variant
    /\ files = <<>>
    /\ idx = 1
    /\ pc = "pixel"
    /\ attempted = <<>>
    /\ log = <<>>
    /\ call = NoCall
    /\ disk = NoDisk

\* target bounds, map entry, resampled value and final alpha of the pixel
ProbePixel ==
    /\ pc = "pixel"
    /\ LET d == DistAt(probe.variant, probe.ring.size, probe.p)
           g == SymmetricTarget(probe.ring.inner * Unit, probe.ring.outer * Unit, probe.fn)
           m == CoordinateMap(probe.variant, g, probe.fn, d)
           sampled == ResampleOwn(probe.own, m, probe.k)
       IN  probe' = [probe EXCEPT
                        !.d = d, !.geom = g,
                        !.remapped = InTargetMask(probe.variant, g, d),
                        !.map = m, !.sampled = sampled,
                        !.mask = EdgeMask(g.tgt_inner, g.tgt_outer, EdgeSoftness, d),
                        !.out = [rgb |-> sampled.rgb,
                                 a |-> MaskedAlpha(sampled.a, g.tgt_inner, g.tgt_outer,
                                                   EdgeSoftness, d)]]
    /\ pc' = "probed"
    /\ UNCHANGED <<script, files, idx, attempted, log, call, disk>>

NextPixel == ProbePixel

SpecPixel == InitPixel /\ [][NextPixel]_vars

(***************************************************************************)
(* The geometric edge mask of one pixel, as each of the three scripts      *)
(* computes it from its own field, target bounds and softness              *)
(***************************************************************************)
\* smoothing of smart_hex_crop: 1.5 in the batch loop, 2.0 by default
Smoothings == {EdgeSoftness, 2 * Unit}

MaskArgs(rings) ==
    UNION {{[NoProbe EXCEPT !.variant = v, !.ring = r, !.fn = f, !.p = p] :
               v \in {Squash, SquashV2}, f \in Factors(Squash), p \in AxisPixels(r.size)}
           \cup
           {[NoProbe EXCEPT !.variant = SmartCrop, !.ring = r, !.fn = f, !.p = p,
                            !.mask = [NoMask EXCEPT !.s = sm]] :
               f \in Factors(SmartCrop), p \in AxisPixels(r.size), sm \in Smoothings}
           : r \in rings}

InitMask ==
    /\ probe \in MaskArgs(Rings)
    /\ script = probe.variant
    /\ files = <<>>
    /\ idx = 1
    /\ pc = "mask"
    /\ attempted = <<>>
    /\ log = <<>>
    /\ call = NoCall
    /\ disk = NoDisk

Masked(g, d) ==
    /\ probe' = [probe EXCEPT !.d = d, !.geom = g,
                              !.mask = EdgeMask(g.tgt_inner, g.tgt_outer, probe.mask.s, d)]
    /\ pc' = "masked"
    /\ UNCHANGED <<script, files, idx, attempted, log, call, disk>>

\* alpha_factor of squash_hex_frame
MaskSquash ==
    /\ pc = "mask" /\ probe.variant = Squash
    /\ Masked(SymmetricTarget(probe.ring.inner * Unit, probe.ring.outer * Unit, probe.fn),
              HexDist(2 * probe.p[2] - probe.ring.size, 2 * probe.p[1] - probe.ring.size))

\* geo_alpha of squash_hex_frame_v2
MaskSquashV2 ==
    /\ pc = "mask" /\ probe.variant = SquashV2
    /\ Masked(SymmetricTarget(probe.ring.inner * Unit, probe.ring.outer * Unit, probe.fn),
              HexDistPointy(2 * probe.p[2] - probe.ring.size, 2 * probe.p[1] - probe.ring.size))

\* mask_f of smart_hex_crop
MaskSmartCrop ==
    /\ pc = "mask" /\ probe.variant = SmartCrop
    /\ Masked(InnerBiasedTarget(probe.ring.inner * Unit, probe.ring.outer * Unit, probe.fn),
              HexDist(2 * probe.p[2] - probe.ring.size, 2 * probe.p[1] - probe.ring.size))

NextMask == MaskSquash \/ MaskSquashV2 \/ MaskSmartCrop

SpecMask == InitMask /\ [][NextMask]_vars

(***************************************************************************)
(* One call of one extraction function on a small strip                    *)
(***************************************************************************)
\* icon_names of main(), and a shorter list
IconNames == <<"construction_site", "wheat", "tree_1", "tree_2">>
NameLists == {IconNames, SubSeq(IconNames, 1, 2)}

\* padding: the default 2, and 0 with the full list
Paddings(names) == IF names = IconNames THEN {0, 2} ELSE {2}

\* min_width and merge_gap, scaled to the strips drawn (defaults 50 and 20)
SmartParams == {[min_width |-> 0, merge_gap |-> 1], [min_width |-> 1, merge_gap |-> 2]}

ExtractCall(s, c, names, pad, sp) ==
    [script |-> s, file |-> "strip.png", input |-> c, icon_names |-> names, padding |-> pad,
     min_width |-> sp.min_width, merge_gap |-> sp.merge_gap, res |-> NoExtract]

ExtractArgs(n) ==
    UNION {UNION {{ExtractCall(s, c, names, pad, [min_width |-> 0, merge_gap |-> 0]) :
                      s \in {ExtractUniform, ExtractDynamic}, c \in {Missing} \cup Strips(n)}
                  \cup
                  {ExtractCall(ExtractSmart, c, names, pad, sp) :
                      c \in {Missing} \cup Strips(n), sp \in SmartParams}
                  : pad \in Paddings(names)}
           : names \in NameLists}

InitExtract ==
    /\ call \in ExtractArgs(StripMaxWidth)
    /\ script = call.script
    /\ files = <<call.file>>
    /\ idx = 1
    /\ pc = "call"
    /\ attempted = <<>>
    /\ log = <<>>
    /\ probe = NoProbe
    /\ disk = NoDisk

CallExtractUniform ==
    /\ pc = "call" /\ script = ExtractUniform
    /\ Returns(extract_horizontal_uniform(call.file, call.input, call.icon_names, call.padding))

CallExtractDynamic ==
    /\ pc = "call" /\ script = ExtractDynamic
    /\ Returns(analyze_and_extract(call.file, call.input, call.icon_names, call.padding))

CallExtractSmart ==
    /\ pc = "call" /\ script = ExtractSmart
    /\ Returns(analyze_and_extract_smart(call.file, call.input, call.icon_names,
                                         call.min_width, call.merge_gap, call.padding))

NextExtract == CallExtractUniform \/ CallExtractDynamic \/ CallExtractSmart

SpecExtract == InitExtract /\ [][NextExtract]_vars

(***************************************************************************)
(* One call of one of the four functions that look for runs of columns,    *)
(* on a strip of one row                                                   *)
(***************************************************************************)
RunMaxWidth == 7

\* strips of one row and 1 .. n columns
RunStrips(n) ==
    UNION {{[w |-> w, h |-> 1, px |-> f] : f \in [Coords(w, 1) -> PixelVals]} : w \in 1 .. n}

\* min_width and merge_gap, scaled to these strips (defaults 50 and 20)
RunParams == {[min_width |-> 0, merge_gap |-> 2], [min_width |-> 1, merge_gap |-> 2],
              [min_width |-> 1, merge_gap |-> 4]}

\* padding: the default 2 with each pair of parameters, and 0 with one
TightParams ==
    {[min_width |-> rp.min_width, merge_gap |-> rp.merge_gap, padding |-> 2] : rp \in RunParams}
    \cup {[min_width |-> 1, merge_gap |-> 2, padding |-> 0]}

RunArgs(n) ==
    {ExtractCall(ExtractDynamic, c, IconNames, 2, [min_width |-> 0, merge_gap |-> 0]) :
        c \in RunStrips(n)}
    \cup
    {ExtractCall(ExtractSmart, c, IconNames, 2, rp) : c \in RunStrips(n), rp \in RunParams}
    \cup
    {ExtractCall(s, c, IconNames, tp.padding, tp) :
        s \in {ExtractSmartTight, ExtractFinalTight}, c \in RunStrips(n), tp \in TightParams}

InitRuns ==
    /\ call \in RunArgs(RunMaxWidth)
    /\ script = call.script
    /\ files = <<call.file>>
    /\ idx = 1
    /\ pc = "call"
    /\ attempted = <<>>
    /\ log = <<>>
    /\ probe = NoProbe
    /\ disk = NoDisk

CallExtractSmartTight ==
    /\ pc = "call" /\ script = ExtractSmartTight
    /\ Returns(extract_smart_tight(call.file, call.input, call.icon_names,
                                   call.min_width, call.merge_gap, call.padding))

CallExtractFinalTight ==
    /\ pc = "call" /\ script = ExtractFinalTight
    /\ Returns(extract_final_tight(call.file, call.input, call.icon_names,
                                   call.min_width, call.merge_gap, call.padding,
                                   alpha_threshold))

NextRuns ==
    CallExtractDynamic \/ CallExtractSmart \/ CallExtractSmartTight \/ CallExtractFinalTight

SpecRuns == InitRuns /\ [][NextRuns]_vars

(***************************************************************************)
(* Properties                                                              *)
(***************************************************************************)
HexScripts == {Squash, SquashV2, SmartCrop}

Returned == pc = "returned"

\* the input of the last call is an image without any pixel of alpha > 20
AllTransparent ==
    /\ call.input # Missing
    /\ \A p \in Coords(call.input.w, call.input.h) : call.input.px[p].a <= 20

Printed(prints, text) == \E i \in DOMAIN prints : prints[i].text = text

SavedTexts == {"Guardado", "Procesado con geometria perfecta", "Procesado"}
EmptyTexts == {"Imagen vacia, saltando.", "Imagen vacia.", "Advertencia: Imagen vacia"}

\* C1 (as stated): an all-transparent input makes squash_hex_frame,
\* squash_hex_frame_v2 and smart_hex_crop end in an error outcome that the
\* batch caller can tell from a successful run, with no file written.
C1_EmptyIsErrorToCaller ==
    (Returned /\ script \in HexScripts /\ AllTransparent)
        => (call.res.signal = "exception" /\ ~call.res.wrote)

\* C1 (amended): an all-transparent input makes each of the three functions
\* print its empty-image message and return normally: no exception, no
\* output file, no saved message; the caller sees the same plain return as
\* after a successful run.
C1_EmptyImageSkipped ==
    (Returned /\ script \in HexScripts /\ AllTransparent)
        => /\ call.res.outcome = "empty"
           /\ call.res.signal = "return"
           /\ ~call.res.wrote
           /\ call.res.out = NoImage
           /\ \E t \in EmptyTexts : Printed(call.res.prints, t)
           /\ \A t \in SavedTexts : ~Printed(call.res.prints, t)

C1_Witness ==
    /\ Returned /\ script \in HexScripts /\ AllTransparent
    /\ \E p \in Coords(call.input.w, call.input.h) : call.input.px[p].a > 0
    /\ call.res.outcome = "empty"

\* C2: when the detected source thickness is <= 0 (inner >= outer) the image
\* is treated like an empty one: skipped and reported, no output file written.
C2_DegenerateSkipped ==
    (Returned /\ script \in HexScripts /\ call.input # Missing
       /\ OccupiedMask(call.input) # {}
       /\ SourceBounds(script, call.input).outer <= SourceBounds(script, call.input).inner)
        => (call.res.outcome = "empty" /\ ~call.res.wrote)

\* C3: in every batch loop the files of the list are attempted exactly once
\* each, in list order, whatever the outcome of the files before; no failure
\* aborts the run.
C3_EveryFileAttemptedInOrder ==
    /\ pc # "aborted"
    /\ Len(attempted) <= Len(files)
    /\ attempted = SubSeq(files, 1, Len(attempted))
    /\ pc = "loop" => Len(attempted) = idx - 1
    /\ pc = "done" => attempted = files

C3_Witness ==
    /\ pc = "done"
    /\ Len(files) >= 2
    /\ attempted = files
    /\ \E i \in DOMAIN log : log[i] = Msg("Error", files[1])

ReasonTexts == EmptyTexts \cup {"Error", "No se encontro contenido en la imagen"}

\* the messages of the loop iteration that made the last call
LastIteration ==
    {i \in DOMAIN log : i > Len(log) - Len(call.res.prints)
                             - (IF call.res.signal = "exception" THEN 1 ELSE 0)}

\* C4: no failure is silently swallowed: every failed or skipped file
\* (exception, empty image, degenerate geometry) is reported with its name
\* and the reason, and a run in which some file failed never ends with an
\* all-succeeded report.
C4_NoSilentFailure ==
    /\ (pc \in {"loop", "done"} /\ call # NoCall
          /\ (\/ call.res.outcome \in {"raised", "empty"}
              \/ (call.res.geom # NoGeom /\ call.res.geom.src_thickness <= 0)))
          => /\ \E i \in LastIteration : log[i].file = call.file
             /\ \E i \in LastIteration : log[i].text \in ReasonTexts
    /\ (pc = "done" /\ Printed(log, "Error"))
          => ~Printed(log, "Todos los marcos adelgazados exitosamente")

\* C4, the closing report alone: after some file raised, the run does not
\* end with the all-succeeded message.
C4_NoSuccessReportAfterFailure ==
    (pc = "done" /\ Printed(log, "Error"))
        => ~Printed(log, "Todos los marcos adelgazados exitosamente")

\* C5: every image written by squash_hex_frame, squash_hex_frame_v2,
\* smart_hex_crop and thin_frame has the width and height of its input, one
\* pixel per input pixel, each channel an 8-bit value.
C5_DimensionInvariance ==
    (Returned /\ call.res.wrote)
        => /\ call.res.out.w = call.input.w
           /\ call.res.out.h = call.input.h
           /\ DOMAIN call.res.out.px = Coords(call.input.w, call.input.h)
           /\ \A p \in DOMAIN call.res.out.px :
                 call.res.out.px[p].rgb \in 0 .. 255 /\ call.res.out.px[p].a \in 0 .. 255

C5_Witness ==
    /\ Returned /\ call.res.wrote
    /\ script = Squash
    /\ call.input.w = 3 /\ call.input.h = 2
    /\ call.res.out.w = 3

\* the pixels of the last call whose distance lies outside
\* [tgt_inner - softness, tgt_outer + softness]
OutsideRing ==
    LET d == DistField(script, call.input.w, call.input.h)
        g == call.res.geom
    IN  {p \in Coords(call.input.w, call.input.h) :
            d[p] < g.tgt_inner - EdgeSoftness \/ d[p] > g.tgt_outer + EdgeSoftness}

\* C6: in the output of squash_hex_frame, squash_hex_frame_v2 and
\* smart_hex_crop every pixel whose distance lies outside
\* [target_inner - softness, target_outer + softness] has alpha 0.
C6_TransparentOutsideRing ==
    (Returned /\ script \in HexScripts /\ call.res.wrote)
        => \A p \in OutsideRing : call.res.out.px[p].a = 0

C6_Witness ==
    /\ Returned /\ script \in HexScripts /\ call.res.wrote
    /\ call.res.geom.src_thickness > 0
    /\ \E p \in OutsideRing : call.input.px[p].a > 0 /\ call.res.out.px[p].a = 0

\* C7: whenever the estimator produces bounds they satisfy 0 <= inner < outer.
C7_BoundsOrdered ==
    (Returned /\ script \in HexScripts /\ call.res.geom # NoGeom)
        => (0 <= call.res.geom.src_inner /\ call.res.geom.src_inner < call.res.geom.src_outer)

\* C8: squash_hex_frame and squash_hex_frame_v2 set target_thickness =
\* source_thickness * factor and centre the target bounds on the midpoint of
\* the source bounds, so src_inner <= tgt_inner <= tgt_outer <= src_outer.
C8_SymmetricTargetBounds ==
    (Returned /\ script \in {Squash, SquashV2} /\ call.res.geom # NoGeom)
        => LET g == call.res.geom
           IN  /\ g.tgt_thickness * FDen = g.src_thickness * call.fn
               /\ g.tgt_inner + g.tgt_outer = g.src_inner + g.src_outer
               /\ g.tgt_outer - g.tgt_inner = g.tgt_thickness
               /\ g.src_inner <= g.tgt_inner
               /\ g.tgt_inner <= g.tgt_outer
               /\ g.tgt_outer <= g.src_outer

C8_Witness ==
    /\ Returned /\ script \in {Squash, SquashV2} /\ call.res.geom # NoGeom
    /\ call.fn = 5
    /\ call.res.geom.src_inner < call.res.geom.tgt_inner
    /\ call.res.geom.tgt_inner < call.res.geom.tgt_outer

Probed == pc = "probed"

Scenario == probe.ring = [size |-> 512, inner |-> 180, outer |-> 220] /\ probe.fn = 5

\* C9: a 512 x 512 ring with detected inner 180 and outer 220, factor 0.5:
\* the target bounds are 190 and 210 (thickness 20); a pixel at distance 150
\* has alpha 0; a pixel at distance 200 is read from source distance 200
\* (t = 0.5, d_src = 200, scale = 1).
C9_Scenario ==
    (Probed /\ Scenario)
        => /\ probe.geom.tgt_inner = 190 * Unit
           /\ probe.geom.tgt_outer = 210 * Unit
           /\ probe.geom.tgt_thickness = 20 * Unit
           /\ probe.d = 150 * Unit => probe.out.a = 0
           /\ probe.d = 200 * Unit
                 => /\ probe.remapped
                    /\ 2 * probe.map.t_num = probe.map.t_den
                    /\ probe.map.d_src_num = 200 * Unit * probe.map.d_src_den
                    /\ ScaleIsOne(probe.map)
                    /\ probe.sampled = probe.own

C9_Witness ==
    /\ Probed /\ Scenario
    /\ probe.d = 200 * Unit
    /\ probe.own.a = 255
    /\ probe.out = probe.own

C9_WitnessOutside ==
    /\ Probed /\ Scenario
    /\ probe.d = 150 * Unit
    /\ probe.own.a = 255
    /\ probe.out.a = 0

TargetBounds(variant, inner, outer, fn) ==
    IF variant = SmartCrop THEN InnerBiasedTarget(inner, outer, fn)
    ELSE SymmetricTarget(inner, outer, fn)

\* the distance field of the last call's image
CallField == DistField(script, call.input.w, call.input.h)

\* C11: for the same image and two factors a < b <= 1 the target band for a
\* is strictly thinner than the band for b and lies inside it.
C11_MonotonicThinning ==
    (Returned /\ script \in HexScripts /\ call.res.geom # NoGeom)
        => \A fb \in (call.fn + 1) .. FDen :
              LET ga == call.res.geom
                  gb == TargetBounds(script, ga.src_inner, ga.src_outer, fb)
              IN  /\ ga.tgt_outer - ga.tgt_inner < gb.tgt_outer - gb.tgt_inner
                  /\ gb.tgt_inner <= ga.tgt_inner
                  /\ ga.tgt_outer <= gb.tgt_outer

\* C12: every generator labelled pointy-top computes, for x = col - W/2 and
\* y = row - H/2, d = max(|y| * (sqrt3/2) + |x| * 0.5, |x|).
C12_PointyTopFormula ==
    (Returned /\ script \in HexScripts /\ call.input # Missing)
        => \A p \in Coords(call.input.w, call.input.h) :
              LET x2 == 2 * p[2] - call.input.w
                  y2 == 2 * p[1] - call.input.h
              IN  CallField[p] =
                     Max((Sqrt3Num * Abs(y2) + Sqrt3Den * Abs(x2)) * (Unit \div DistDen),
                         Abs(x2) * (Unit \div 2))

\* C13 (as stated): every field has a pixel with d = 0, that pixel is the
\* centre pixel of the image, and d > 0 at every other pixel.
C13_ZeroAtCentrePixel ==
    (Returned /\ script \in HexScripts /\ call.input # Missing)
        => /\ CallField[<<call.input.h \div 2, call.input.w \div 2>>] = 0
           /\ \A p \in Coords(call.input.w, call.input.h) :
                 p # <<call.input.h \div 2, call.input.w \div 2>> => CallField[p] > 0

\* C13 (amended): the field is non-negative everywhere and is 0 exactly at
\* the pixel (row H/2, column W/2), which exists only when W and H are both
\* even; when W or H is odd no pixel has d = 0.
C13_ZeroOnlyAtEvenCentre ==
    (Returned /\ script \in HexScripts /\ call.input # Missing)
        => /\ \A p \in Coords(call.input.w, call.input.h) :
                 /\ CallField[p] >= 0
                 /\ CallField[p] = 0 <=> (2 * p[1] = call.input.h /\ 2 * p[2] = call.input.w)
           /\ (call.input.w % 2 = 1 \/ call.input.h % 2 = 1)
                 => \A p \in Coords(call.input.w, call.input.h) : CallField[p] > 0

C13_Witness ==
    /\ Returned /\ script = Squash
    /\ call.input.w = 2 /\ call.input.h = 2
    /\ CallField[<<1, 1>>] = 0
    /\ CallField[<<0, 0>>] > 0

C13_WitnessOdd ==
    /\ Returned /\ script = SquashV2
    /\ call.input.w = 3 /\ call.input.h = 1
    /\ CallField[<<0, 1>>] > 0

(***************************************************************************)
(* The inverse map                                                         *)
(***************************************************************************)
\* C14: for every remapped destination pixel of squash_hex_frame and
\* squash_hex_frame_v2 (margin pixels included) t lies in [0, 1] and the
\* source radius d_src lies in [src_inner, src_outer].
C14_SourceRadiusInBand ==
    (Probed /\ probe.remapped /\ probe.geom.src_thickness > 0)
        => /\ ~probe.map.nan
           /\ 0 <= probe.map.t_num /\ probe.map.t_num <= probe.map.t_den
           /\ probe.geom.src_inner * probe.map.d_src_den <= probe.map.d_src_num
           /\ probe.map.d_src_num <= probe.geom.src_outer * probe.map.d_src_den

\* the pixel lies outside [tgt_inner - margin, tgt_outer + margin]:
\* margin 1 px in squash_hex_frame, 2 px in squash_hex_frame_v2
OutsideAnnulus ==
    LET margin == IF probe.variant = Squash THEN Unit ELSE 2 * Unit
    IN  \/ probe.d < probe.geom.tgt_inner - margin
        \/ probe.d > probe.geom.tgt_outer + margin

\* C20: the coordinate map starts as the identity and is overwritten only
\* inside the target annulus: a pixel whose distance lies outside
\* [tgt_inner - margin, tgt_outer + margin] keeps map_y = row, map_x = column.
C20_IdentityOutsideAnnulus ==
    (Probed /\ OutsideAnnulus)
        => /\ ~probe.remapped
           /\ probe.map = IdentityMap
           /\ ScaleIsOne(probe.map)
           /\ probe.sampled = probe.own

C20_Witness ==
    /\ Probed /\ OutsideAnnulus
    /\ probe.variant = SquashV2 /\ probe.fn = 5
    /\ probe.geom.src_thickness > 0
    /\ probe.d > 0 /\ probe.d < probe.geom.tgt_inner
    /\ probe.own.a = 255
    /\ probe.sampled = probe.own

(***************************************************************************)
(* Final alpha                                                             *)
(***************************************************************************)
\* C17: squash_hex_frame and squash_hex_frame_v2 both write
\* alpha = floor(sampled_alpha * mask(d)): never more than the resampled
\* alpha, 0 where mask(d) = 0, the resampled alpha where mask(d) = 1; the
\* colour channels are the resampled ones.
C17_SampledAndMasked ==
    Probed
        => /\ probe.out.a \in 0 .. 255
           /\ probe.out.a <= probe.sampled.a
           /\ probe.out.rgb = probe.sampled.rgb
           /\ (probe.d <= probe.geom.tgt_inner \/ probe.d >= probe.geom.tgt_outer)
                 => probe.out.a = 0
           /\ (probe.d >= probe.geom.tgt_inner + EdgeSoftness
                 /\ probe.d <= probe.geom.tgt_outer - EdgeSoftness)
                 => probe.out.a = probe.sampled.a

C17_Witness ==
    /\ Probed /\ probe.variant = SquashV2
    /\ probe.d > probe.geom.tgt_inner /\ probe.d < probe.geom.tgt_inner + EdgeSoftness
    /\ probe.sampled.a = 200
    /\ probe.out.a > 0 /\ probe.out.a < 200

C17_WitnessInterior ==
    /\ Probed /\ probe.variant = Squash
    /\ probe.d >= probe.geom.tgt_inner + EdgeSoftness
    /\ probe.d <= probe.geom.tgt_outer - EdgeSoftness
    /\ probe.sampled.a = 200
    /\ probe.out.a = 200

\* floor(mask(d) * 255) at pixel p for the bounds of the last call
CallMask255(p) ==
    MaskedAlpha(255, call.res.geom.tgt_inner, call.res.geom.tgt_outer, EdgeSoftness,
                CallField[p])

\* C18: smart_hex_crop writes alpha = min(original alpha, floor(mask(d) * 255))
\* at every pixel, so no output alpha exceeds the input alpha, and leaves the
\* colour channels of every pixel unchanged.
C18_MinimumWithOriginal ==
    (Returned /\ script = SmartCrop /\ call.res.wrote)
        => \A p \in Coords(call.input.w, call.input.h) :
              /\ call.res.out.px[p].a <= call.input.px[p].a
              /\ call.res.out.px[p].a <= CallMask255(p)
              /\ call.res.out.px[p].a \in {call.input.px[p].a, CallMask255(p)}
              /\ call.res.out.px[p].rgb = call.input.px[p].rgb

C18_Witness ==
    /\ Returned /\ script = SmartCrop /\ call.res.wrote
    /\ \E p \in Coords(call.input.w, call.input.h) :
          /\ call.input.px[p].a = 15
          /\ CallMask255(p) > 15
          /\ call.res.out.px[p].a = 15
    /\ \E p \in Coords(call.input.w, call.input.h) :
          /\ call.input.px[p].a = 255
          /\ call.res.out.px[p].a < 255

(***************************************************************************)
(* The edge mask                                                           *)
(***************************************************************************)
\* C19: mask(d) = clamp((d - tgt_inner)/s, 0, 1) * clamp((tgt_outer - d)/s, 0, 1)
\* in squash_hex_frame, squash_hex_frame_v2 and smart_hex_crop: both factors
\* lie in [0, 1]; the mask is 0 for d <= tgt_inner and for d >= tgt_outer,
\* 1 for tgt_inner + s <= d <= tgt_outer - s, and each factor rises linearly
\* over the width s next to its edge.
C19_EdgeMaskShape ==
    (pc = "masked")
        => LET m == probe.mask
               g == probe.geom
               d == probe.d
           IN  /\ 0 <= m.low /\ m.low <= m.s
               /\ 0 <= m.high /\ m.high <= m.s
               /\ d <= g.tgt_inner => m.low = 0
               /\ d >= g.tgt_outer => m.high = 0
               /\ (d > g.tgt_inner /\ d < g.tgt_outer) => (m.low > 0 /\ m.high > 0)
               /\ (g.tgt_inner + m.s <= d /\ d <= g.tgt_outer - m.s)
                     => (m.low = m.s /\ m.high = m.s)
               /\ (g.tgt_inner <= d /\ d <= g.tgt_inner + m.s) => m.low = d - g.tgt_inner
               /\ (g.tgt_outer - m.s <= d /\ d <= g.tgt_outer) => m.high = g.tgt_outer - d

C19_Witness ==
    /\ pc = "masked" /\ probe.variant = SmartCrop
    /\ probe.mask.s = 2 * Unit
    /\ probe.d > probe.geom.tgt_inner /\ probe.d < probe.geom.tgt_inner + probe.mask.s
    /\ probe.mask.low > 0 /\ probe.mask.low < probe.mask.s
    /\ probe.mask.high = probe.mask.s

C19_WitnessInterior ==
    /\ pc = "masked" /\ probe.variant = SquashV2
    /\ probe.geom.tgt_inner + probe.mask.s <= probe.d
    /\ probe.d <= probe.geom.tgt_outer - probe.mask.s
    /\ probe.mask.low = probe.mask.s /\ probe.mask.high = probe.mask.s

(***************************************************************************)
(* Processing order                                                        *)
(***************************************************************************)
\* what processing leaves in file f, from f's own content before the run
OwnResult(f) ==
    LET res == CallScript(script, f, disk[f].orig, TRUE, BatchFactor(script), call.k)
    IN  IF res.wrote THEN res.out ELSE disk[f].orig

Extractors == {ExtractUniform, ExtractDynamic, ExtractSmart}

\* the crops of the last call that are not None
CropsFound == {i \in DOMAIN call.res.crops : call.res.crops[i] # NoCrop}

\* C15: all icons saved by one call have the size (max crop width + 2 * padding)
\* x (max crop height + 2 * padding); there is one icon per crop found, and its
\* crop lies inside the canvas with at least `padding` pixels free on each of
\* the four sides.
C15_UniformIconSize ==
    (Returned /\ script \in Extractors /\ call.res.signal = "return")
        => /\ Len(call.res.saved) = Cardinality(CropsFound)
           /\ \A i \in DOMAIN call.res.saved :
                 LET icon == call.res.saved[i]
                 IN  /\ \A j \in CropsFound :
                           /\ call.res.crops[j].w + 2 * call.padding <= icon.w
                           /\ call.res.crops[j].h + 2 * call.padding <= icon.h
                     /\ \E j \in CropsFound : call.res.crops[j].w + 2 * call.padding = icon.w
                     /\ \E j \in CropsFound : call.res.crops[j].h + 2 * call.padding = icon.h
                     /\ \E j \in CropsFound : icon.crop = call.res.crops[j]
                     /\ icon.x_pos >= call.padding
                     /\ icon.y_pos >= call.padding
                     /\ icon.w - (icon.x_pos + icon.crop.w) >= call.padding
                     /\ icon.h - (icon.y_pos + icon.crop.h) >= call.padding
           /\ \A i, j \in DOMAIN call.res.saved :
                 /\ call.res.saved[i].w = call.res.saved[j].w
                 /\ call.res.saved[i].h = call.res.saved[j].h

C15_Witness ==
    /\ Returned /\ script = ExtractDynamic /\ call.padding = 2
    /\ Len(call.res.saved) >= 2
    /\ \E i, j \in DOMAIN call.res.saved :
          /\ call.res.saved[i].crop.w < call.res.saved[j].crop.w
          /\ call.res.saved[i].crop.h < call.res.saved[j].crop.h
          /\ call.res.saved[i].x_pos > 2
          /\ call.res.saved[i].w = call.res.saved[j].w

C15_WitnessUniform ==
    /\ Returned /\ script = ExtractUniform
    /\ Len(call.res.saved) = 2 /\ Len(call.res.crops) = 4
    /\ call.res.saved[1].crop.h # call.res.saved[2].crop.h

C15_WitnessSmart ==
    /\ Returned /\ script = ExtractSmart /\ call.merge_gap = 2
    /\ Len(call.res.saved) = 1
    /\ call.res.saved[1].crop.w = 5
    /\ call.input.px[<<0, 2>>].a = 0 /\ call.input.px[<<1, 2>>].a = 0

(***************************************************************************)
(* Divisors of the warp; bound policy of smart_hex_crop                    *)
(***************************************************************************)
\* the remapped pixels of the last call
RemappedPixels ==
    {p \in Coords(call.input.w, call.input.h) :
        InTargetMask(script, call.res.geom, CallField[p])}

\* C21: in squash_hex_frame and squash_hex_frame_v2 no division of the warp
\* has a zero divisor: d = 0 is replaced by 0.001 before scale = d_src / d,
\* and the target thickness that t is divided by is not 0 when the warp runs.
C21_NoZeroDivisor ==
    (Returned /\ script \in {Squash, SquashV2} /\ call.res.wrote)
        => \A p \in RemappedPixels :
              LET m == CoordinateMap(script, call.res.geom, call.fn, CallField[p])
              IN  /\ m.valid_d # 0
                  /\ m.t_den # 0
                  /\ call.res.geom.tgt_thickness # 0

\* C22: smart_hex_crop makes the new thickness current_thickness * factor,
\* moves the inner bound outwards by three times what the outer bound moves
\* inwards, and keeps current_inner <= new_inner <= new_outer <= current_outer.
C22_InnerBiasedBounds ==
    (Returned /\ script = SmartCrop /\ call.res.geom # NoGeom)
        => LET g == call.res.geom
           IN  /\ (g.tgt_outer - g.tgt_inner) * FDen = g.src_thickness * call.fn
               /\ g.tgt_inner - g.src_inner = 3 * (g.src_outer - g.tgt_outer)
               /\ g.src_inner <= g.tgt_inner
               /\ g.tgt_inner <= g.tgt_outer
               /\ g.tgt_outer <= g.src_outer

C22_Witness ==
    /\ Returned /\ script = SmartCrop /\ call.res.geom # NoGeom
    /\ call.fn = 6
    /\ call.res.geom.src_thickness > 0
    /\ call.res.geom.src_inner < call.res.geom.tgt_inner
    /\ call.res.geom.tgt_outer < call.res.geom.src_outer

(***************************************************************************)
(* thin_frame: which pixels are removed                                    *)
(***************************************************************************)
\* the positions within 4-neighbour (Manhattan) distance k of p
WithinDistance(p, k) ==
    {q \in (p[1] - k .. p[1] + k) \X (p[2] - k .. p[2] + k) :
        Abs(q[1] - p[1]) + Abs(q[2] - p[2]) <= k}

\* p is opaque and has, within distance k, a position outside the image or
\* a pixel of alpha <= 128
NearEdge(img, p, k) ==
    /\ img.px[p].a > OpaqueThreshold
    /\ \E q \in WithinDistance(p, k) :
          \/ q \notin Coords(img.w, img.h)
          \/ img.px[q].a <= OpaqueThreshold

\* C23: with k erosion iterations thin_frame sets a pixel's alpha to 0 exactly
\* when its alpha is > 128 and some position within Manhattan distance k is
\* outside the image or has alpha <= 128; every other pixel keeps its alpha
\* and every pixel keeps its colour.
C23_RemovedWithinDistance ==
    (Returned /\ script = ThinFrame /\ call.res.outcome = "saved")
        => LET img == call.input
               out == call.res.out
           IN  /\ out.w = img.w /\ out.h = img.h
               /\ \A p \in Coords(img.w, img.h) :
                     /\ out.px[p].rgb = img.px[p].rgb
                     /\ out.px[p].a = IF NearEdge(img, p, call.erosion_iterations)
                                      THEN 0 ELSE img.px[p].a

\* two iterations on a frame with a hole: a pixel at distance 2 of the hole is
\* removed, an opaque pixel further from every edge survives, the hole at
\* the threshold keeps its alpha
C23_Witness ==
    /\ Returned /\ script = ThinFrame /\ call.res.outcome = "saved"
    /\ call.erosion_iterations = 2
    /\ \E p \in Coords(call.input.w, call.input.h) :
          /\ call.input.px[p].a = OpaqueThreshold
          /\ call.res.out.px[p].a = OpaqueThreshold
    /\ \E p \in Coords(call.input.w, call.input.h) :
          /\ call.input.px[p].a > OpaqueThreshold
          /\ call.res.out.px[p].a = 0
          /\ ~NearEdge(call.input, p, 1)
    /\ \E p \in Coords(call.input.w, call.input.h) :
          /\ call.input.px[p].a > OpaqueThreshold
          /\ call.res.out.px[p].a = call.input.px[p].a

\* a pixel diagonal to a hole survives one iteration
C23_WitnessDiagonal ==
    /\ Returned /\ script = ThinFrame /\ call.res.outcome = "saved"
    /\ call.erosion_iterations = 1
    /\ \E p \in Coords(call.input.w, call.input.h) :
          /\ call.res.out.px[p].a > OpaqueThreshold
          /\ \E q \in (p[1] - 1 .. p[1] + 1) \X (p[2] - 1 .. p[2] + 1) :
                q \in Coords(call.input.w, call.input.h) /\ call.input.px[q].a = 0

(***************************************************************************)
(* Runs of columns with content; filtered and merged sections              *)
(***************************************************************************)
RunDetectors == {ExtractDynamic, ExtractSmart, ExtractSmartTight, ExtractFinalTight}
Mergers == {ExtractSmart, ExtractSmartTight, ExtractFinalTight}

\* columns a .. b - 1 are a maximal run of columns with content
MaximalRun(has_content, a, b) ==
    LET width == Cardinality(DOMAIN has_content)
    IN  /\ 0 <= a /\ a < b /\ b <= width
        /\ \A c \in a .. b - 1 : has_content[c]
        /\ a = 0 \/ ~has_content[a - 1]
        /\ b = width \/ ~has_content[b]

\* C24: the column-run detection gives starts and ends of equal length with
\* starts[i] < ends[i] < starts[i+1], and the intervals [starts[i], ends[i])
\* are exactly the maximal runs of columns with content, also when the strip
\* starts or ends with content.
C24_SectionsAreMaximalRuns ==
    (Returned /\ script \in RunDetectors /\ call.res.outcome = "saved")
        => LET has_content == call.res.runs.has_content
               starts == call.res.runs.starts
               ends == call.res.runs.ends
               width == call.input.w
           IN  /\ DOMAIN has_content = 0 .. width - 1
               /\ Len(starts) = Len(ends)
               /\ \A i \in DOMAIN starts : starts[i] < ends[i]
               /\ \A i \in 1 .. Len(starts) - 1 : ends[i] < starts[i + 1]
               /\ {<<starts[i], ends[i]>> : i \in DOMAIN starts}
                     = {r \in (0 .. width) \X (0 .. width) : MaximalRun(has_content, r[1], r[2])}
               /\ call.res.runs.sections = [i \in DOMAIN starts |-> <<starts[i], ends[i]>>]

\* a strip that starts and ends with content and has a run in between
C24_Witness ==
    /\ Returned /\ script \in RunDetectors /\ call.res.outcome = "saved"
    /\ Len(call.res.runs.starts) = 3
    /\ call.res.runs.starts[1] = 0
    /\ call.res.runs.ends[3] = call.input.w
    /\ call.res.runs.ends[2] - call.res.runs.starts[2] = 2

\* a strip with no column of content: no run
C24_WitnessEmpty ==
    /\ Returned /\ script = ExtractFinalTight /\ call.res.outcome = "saved"
    /\ call.res.runs.starts = <<>> /\ call.res.runs.ends = <<>>
    /\ \E p \in Coords(call.input.w, call.input.h) : call.input.px[p].a > 0

\* the sections wider than min_width, by index
Kept == {i \in DOMAIN call.res.runs.sections :
            call.res.runs.sections[i][2] - call.res.runs.sections[i][1] > call.min_width}

\* C25: after filter and merge the merged sections are ordered left to right
\* and disjoint, each spans consecutive kept sections (each wider than
\* min_width), consecutive merged sections are at least merge_gap columns
\* apart, and the list is empty only when no section is wider than min_width.
C25_MergedSections ==
    (Returned /\ script \in Mergers /\ call.res.outcome = "saved")
        => LET sections == call.res.runs.sections
               merged == call.res.runs.merged_sections
           IN  /\ \A i \in DOMAIN merged : merged[i][1] < merged[i][2]
               /\ \A i \in 1 .. Len(merged) - 1 :
                     /\ merged[i][2] <= merged[i + 1][1]
                     /\ merged[i + 1][1] - merged[i][2] >= call.merge_gap
               /\ \A i \in DOMAIN merged :
                     \E a \in Kept, b \in Kept :
                        /\ a <= b
                        /\ merged[i] = <<sections[a][1], sections[b][2]>>
               /\ \A k \in Kept :
                     \E i \in DOMAIN merged :
                        merged[i][1] <= sections[k][1] /\ sections[k][2] <= merged[i][2]
               /\ (merged = <<>>) <=> (Kept = {})

\* three kept sections, the first two merged, the third one apart
C25_Witness ==
    /\ Returned /\ script \in Mergers /\ call.res.outcome = "saved"
    /\ Len(call.res.runs.valid_sections) = 3
    /\ Len(call.res.runs.merged_sections) = 2
    /\ call.res.runs.merged_sections[1][2] - call.res.runs.merged_sections[1][1] = 3

\* a narrow section dropped, and its neighbours merged across it
C25_WitnessDropped ==
    /\ Returned /\ script \in Mergers /\ call.res.outcome = "saved"
    /\ Len(call.res.runs.sections) = 3
    /\ Len(call.res.runs.valid_sections) = 2
    /\ Len(call.res.runs.merged_sections) = 1

\* sections found, none wider than min_width: nothing merged
C25_WitnessNone ==
    /\ Returned /\ script \in Mergers /\ call.res.outcome = "saved"
    /\ call.res.runs.sections # <<>>
    /\ call.res.runs.merged_sections = <<>>

====
